---- MODULE Spec2Model ----
(***************************************************************************)
(* LOUDS trie of hideo55/go-loudstrie: the builder (loudstrie_builder.go)  *)
(* and the trie queries and codec (loudstrie.go).                          *)
(*                                                                         *)
(* A string is a sequence of bytes (0..255).  A bit vector is a sequence   *)
(* of 0/1; the code's 0-based index i is element i+1.  A uint64 is an      *)
(* integer; the values next to 2^64 are written as small negative numbers  *)
(* (NotFound = 2^64-1 is -1), so that +1 and - wrap as the code's do.      *)
(***************************************************************************)
EXTENDS Integers, Sequences, FiniteSets, TLC

\* ------------------------------------------------------------------ bounds
MaxLen == 3
MaxKeys == 2
MaxBuilds == 2

\* the numbers read from a buffer are told apart below MaxUint only: it is
\* larger than any buffer, count or bit width of the model
MaxUint == 4194304

\* the readers that share one built trie
NumReaders == 2

\* the byte values keys are made of: an ASCII letter and a byte that is
\* never valid in UTF-8
Bytes == {97, 255}

\* ------------------------------------------------------------- constants
NotFound == -1
noLimit == -1
defaultPos == 2
RuneError == 65533

\* ---------------------------------------------------------------- uint64
\* x < y on uint64, negative numbers standing for values next to 2^64
ULess(x, y) ==
  IF x >= 0 /\ y < 0 THEN TRUE
  ELSE IF x < 0 /\ y >= 0 THEN FALSE
  ELSE x < y

max(x, y) == IF ULess(x, y) THEN y ELSE x

\* --------------------------------------------------------------- strings
RECURSIVE StrLess(_, _)
\* a < b of Go strings: byte-wise lexicographic
StrLess(a, b) ==
  IF b = <<>> THEN FALSE
  ELSE IF a = <<>> THEN TRUE
  ELSE IF a[1] # b[1] THEN a[1] < b[1]
  ELSE StrLess(Tail(a), Tail(b))

RECURSIVE InsertSorted(_, _)
InsertSorted(s, k) ==
  IF s = <<>> THEN <<k>>
  ELSE IF StrLess(k, s[1]) THEN <<k>> \o s
  ELSE <<s[1]>> \o InsertSorted(Tail(s), k)

RECURSIVE insertByLength(_, _)
insertByLength(s, k) ==
  IF s = <<>> THEN <<k>>
  ELSE IF Len(k) <= Len(s[1]) THEN <<k>> \o s
  ELSE <<s[1]>> \o insertByLength(Tail(s), k)

RECURSIVE sortByLength(_)
\* a stable sort that compared the lengths of the strings only
sortByLength(a) ==
  IF a = <<>> THEN <<>>
  ELSE insertByLength(sortByLength(Tail(a)), a[1])

RECURSIVE SortStrings(_)
\* sort.Strings: the list in ascending order, duplicates kept
SortStrings(a) ==
  IF a = <<>> THEN <<>>
  ELSE InsertSorted(SortStrings(Tail(a)), a[1])

RECURSIVE removeDuplicates(_)
\* the first occurrence of every value, in order
removeDuplicates(a) ==
  IF a = <<>> THEN <<>>
  ELSE LET init == removeDuplicates(SubSeq(a, 1, Len(a) - 1))
           val == a[Len(a)]
       IN IF \E i \in 1..Len(init) : init[i] = val THEN init
          ELSE Append(init, val)

IsCont(b) == b >= 128 /\ b <= 191

\* the first rune of a non-empty string and the number of bytes it takes
\* ([]rune(str): an invalid byte is one RuneError)
FirstRune(s) ==
  LET b == s[1]
      n == Len(s)
      lo2 == IF b = 224 THEN 160 ELSE IF b = 240 THEN 144 ELSE 128
      hi2 == IF b = 237 THEN 159 ELSE IF b = 244 THEN 143 ELSE 191
  IN IF b < 128 THEN [r |-> b, n |-> 1]
     ELSE IF b >= 194 /\ b <= 223 /\ n >= 2 /\ IsCont(s[2])
       THEN [r |-> (b - 192) * 64 + (s[2] - 128), n |-> 2]
     ELSE IF b >= 224 /\ b <= 239 /\ n >= 3 /\ s[2] >= lo2 /\ s[2] <= hi2
             /\ IsCont(s[3])
       THEN [r |-> (b - 224) * 4096 + (s[2] - 128) * 64 + (s[3] - 128), n |-> 3]
     ELSE IF b >= 240 /\ b <= 244 /\ n >= 4 /\ s[2] >= lo2 /\ s[2] <= hi2
             /\ IsCont(s[3]) /\ IsCont(s[4])
       THEN [r |-> (b - 240) * 262144 + (s[2] - 128) * 4096
                   + (s[3] - 128) * 64 + (s[4] - 128), n |-> 4]
     ELSE [r |-> RuneError, n |-> 1]

RECURSIVE ToRunes(_)
ToRunes(s) ==
  IF s = <<>> THEN <<>>
  ELSE LET f == FirstRune(s)
       IN <<f.r>> \o ToRunes(SubSeq(s, f.n + 1, Len(s)))

\* the UTF-8 bytes of one rune
EncodeRune(r) ==
  IF r < 128 THEN <<r>>
  ELSE IF r < 2048 THEN <<192 + (r \div 64), 128 + (r % 64)>>
  ELSE IF r >= 55296 /\ r <= 57343 THEN <<239, 191, 189>>
  ELSE IF r < 65536
    THEN <<224 + (r \div 4096), 128 + ((r \div 64) % 64), 128 + (r % 64)>>
  ELSE <<240 + (r \div 262144), 128 + ((r \div 4096) % 64),
         128 + ((r \div 64) % 64), 128 + (r % 64)>>

RECURSIVE FromRunes(_)
FromRunes(rs) ==
  IF rs = <<>> THEN <<>>
  ELSE EncodeRune(rs[1]) \o FromRunes(Tail(rs))

Reverse(s) == [i \in 1..Len(s) |-> s[Len(s) + 1 - i]]

\* reverseString: the string's runes in reverse order, encoded again
reverseString(str) == FromRunes(Reverse(ToRunes(str)))

\* ------------------------------------------------- succinct bit vector
\* The rank/select bit vector the trie is built on (go-sbvector).  A query
\* out of range reports an error the trie code drops, and yields false or
\* NotFound.
Get(v, i) == IF i >= 0 /\ i < Len(v) THEN v[i + 1] = 1 ELSE FALSE

Count(v, b, n) == Cardinality({j \in 1..n : v[j] = b})

\* the number of 1-bits before index i
Rank1(v, i) == IF i >= 0 /\ i <= Len(v) THEN Count(v, 1, i) ELSE NotFound

\* the index of the x-th bit of value b, counted from 0
Select(v, b, x) ==
  IF x >= 0 /\ x < Count(v, b, Len(v))
    THEN (CHOOSE p \in 1..Len(v) : v[p] = b /\ Count(v, b, p) = x + 1) - 1
    ELSE NotFound

Select1(v, x) == Select(v, 1, x)
Select0(v, x) == Select(v, 0, x)

NumOfBits(v) == Count(v, 1, Len(v))

\* n bits of x, low bit first; NotFound is all ones
PushBackBits(v, x, n) ==
  v \o [i \in 1..n |-> IF x < 0 THEN 1 ELSE (x \div (2 ^ (i - 1))) % 2]

RECURSIVE BitsValue(_, _, _)
BitsValue(v, pos, n) ==
  IF n = 0 THEN 0
  ELSE (IF Get(v, pos) THEN 1 ELSE 0) + 2 * BitsValue(v, pos + 1, n - 1)

\* the n-bit integer at bit offset pos
GetBits(v, pos, n) ==
  IF pos >= 0 /\ n >= 0 /\ pos + n <= Len(v) THEN BitsValue(v, pos, n) ELSE NotFound

\* ------------------------------------------------------------------ trie
NoTrie == [nil |-> TRUE]

\* &TrieData{}: the zero value
ZeroTrie ==
  [louds |-> <<>>, terminal |-> <<>>, tail |-> <<>>, vtails |-> <<>>,
   edges |-> <<>>, numOfKeys |-> 0, hasTailTrie |-> FALSE, tailTrie |-> NoTrie,
   tailIDs |-> <<>>, tailIDSize |-> 0]

RECURSIVE lg2From(_, _)
lg2From(x, ret) == IF x \div (2 ^ ret) # 0 THEN lg2From(x, ret + 1) ELSE ret

\* a logarithm rounded down
lg2Floor(x) == IF x = 0 THEN 0 ELSE lg2From(x, 0) - 1

\* the number of bits of x
lg2(x) == lg2From(x, 0)

\* --------------------------------------------------------------- builder
RECURSIVE childRunsPerKey(_, _, _, _, _, _)
\* an inner loop that opened a child for every key, equal bytes or not
childRunsPerKey(kl, depth, prev, i, right, s) ==
  LET s1 == [s EXCEPT !.edges = Append(@, kl[prev + 1][depth + 1]),
                      !.tree = Append(@, 0),
                      !.nextQ = Append(@, [left |-> prev, right |-> i])]
  IN IF i = right THEN s1
     ELSE childRunsPerKey(kl, depth, i, i + 1, right, s1)

RECURSIVE childRuns(_, _, _, _, _, _)
\* Build's inner loop: one edge, one 0-bit and one queued range per run of
\* keys that share the byte at depth
childRuns(kl, depth, prev, i, right, s) ==
  LET prevC == kl[prev + 1][depth + 1]
  IN IF i < right /\ prevC = kl[i + 1][depth + 1]
       THEN childRuns(kl, depth, prev, i + 1, right, s)
       ELSE LET s1 == [s EXCEPT !.edges = Append(@, prevC),
                                !.tree = Append(@, 0),
                                !.nextQ = Append(@, [left |-> prev, right |-> i])]
            IN IF i = right THEN s1
               ELSE childRuns(kl, depth, i, i + 1, right, s1)

\* a loop body that appended a tail bit for the nodes with a tail only
visitNodeTailOnly(kl, s) ==
  LET rn == Head(s.q)
      s0 == [s EXCEPT !.q = Tail(@)]
      left == rn.left
      right == rn.right
      depth == s.depth
      cur == kl[left + 1]
      curSize == Len(cur)
  IN IF left + 1 = right /\ depth + 1 < curSize
       THEN [s0 EXCEPT !.tree = Append(@, 1),
                       !.terminal = Append(@, 1),
                       !.tail = Append(@, 1),
                       !.vtails = Append(@, SubSeq(cur, depth + 1, curSize))]
       ELSE LET isKey == depth = curSize
                newLeft == IF isKey THEN left + 1 ELSE left
                s1 == [s0 EXCEPT !.terminal = Append(@, IF isKey THEN 1 ELSE 0)]
            IN IF isKey /\ newLeft = right
                 THEN [s1 EXCEPT !.tree = Append(@, 1)]
                 ELSE LET s2 == childRuns(kl, depth, newLeft, newLeft + 1, right, s1)
                      IN [s2 EXCEPT !.tree = Append(@, 1)]

\* one pass of Build's loop body for the range at the head of the queue
visitNode(kl, s) ==
  LET rn == Head(s.q)
      s0 == [s EXCEPT !.q = Tail(@)]
      left == rn.left
      right == rn.right
      depth == s.depth
      cur == kl[left + 1]
      curSize == Len(cur)
  IN IF left + 1 = right /\ depth + 1 < curSize
       THEN [s0 EXCEPT !.tree = Append(@, 1),
                       !.terminal = Append(@, 1),
                       !.tail = Append(@, 1),
                       !.vtails = Append(@, SubSeq(cur, depth + 1, curSize))]
       ELSE LET isKey == depth = curSize
                newLeft == IF isKey THEN left + 1 ELSE left
                s1 == [s0 EXCEPT !.tail = Append(@, 0),
                                 !.terminal = Append(@, IF isKey THEN 1 ELSE 0)]
            IN IF isKey /\ newLeft = right
                 THEN [s1 EXCEPT !.tree = Append(@, 1)]
                 ELSE LET s2 == childRuns(kl, depth, newLeft, newLeft + 1, right, s1)
                      IN [s2 EXCEPT !.tree = Append(@, 1)]

RECURSIVE buildLoop(_, _)
\* Build's outer loop: level by level until both queues are empty
buildLoop(kl, s) ==
  LET s1 == IF s.q = <<>>
              THEN [s EXCEPT !.q = s.nextQ, !.nextQ = <<>>, !.depth = @ + 1]
              ELSE s
  IN IF s1.q = <<>> THEN s1 ELSE buildLoop(kl, visitNode(kl, s1))

\* a tree vector that started with the bits 1, 0
seedBitsOneZero == <<1, 0>>

\* the two bits the tree vector starts with: PushBack(false), then
\* PushBack(true)
seedBits == <<0, 1>>

\* the builders and the queue as Build's loop starts: edges and vtails are
\* the TrieData's own slices, appended to
loopStart(trie, n) ==
  [q |-> IF n # 0 THEN <<[left |-> 0, right |-> n]>> ELSE <<>>,
   nextQ |-> <<>>, depth |-> 0, tree |-> seedBits,
   terminal |-> <<>>, tail |-> <<>>,
   vtails |-> trie.vtails, edges |-> trie.edges]

\* the TrieData with the key count and what the loop produced
storeVectors(trie, n, s) ==
  [trie EXCEPT !.numOfKeys = n, !.louds = s.tree, !.terminal = s.terminal,
               !.tail = s.tail, !.vtails = s.vtails, !.edges = s.edges]

\* Build from the sorted, duplicate-free list kl on
fillTrie(trie, kl) ==
  storeVectors(trie, Len(kl), buildLoop(kl, loopStart(trie, Len(kl))))

\* a Build that counted the keys before the duplicates were removed
buildLoudsCountAll(trie, keyList) ==
  [fillTrie(trie, removeDuplicates(SortStrings(keyList)))
     EXCEPT !.numOfKeys = Len(keyList)]

\* Build up to the three bit vectors: sort, deduplicate, walk the levels.
\* trie is the builder's TrieData as the call finds it.
buildLouds(trie, keyList) ==
  fillTrie(trie, removeDuplicates(SortStrings(keyList)))

\* --------------------------------------------------------------- queries
\* What a call yields: st is "ok" when it returns, "panic" when it stops
\* on an index out of range, "hang" when its loop never ends.
Panic == [st |-> "panic"]
Hang == [st |-> "hang"]

\* more steps than any loop over a well-formed trie takes
Fuel(trie) == Len(trie.louds) + 2

InRange(s, i) == i >= 0 /\ i < Len(s)

isLeaf(trie, pos) == Get(trie.louds, pos)

\* where getChild lands when the label matches
childPos(trie, zeros, p) == [st |-> "ok", pos |-> p, zeros |-> p - zeros + 1]

RECURSIVE getChild(_, _, _, _)
\* the child of the node at (pos, zeros) along byte c: pos = NotFound when
\* there is none
getChild(trie, c, pos, zeros) ==
  IF isLeaf(trie, pos) THEN [st |-> "ok", pos |-> NotFound, zeros |-> zeros]
  ELSE IF ~InRange(trie.edges, zeros - 2) THEN Panic
  ELSE IF c = trie.edges[zeros - 2 + 1]
    THEN childPos(trie, zeros, Select1(trie.louds, zeros - 1) + 1)
  ELSE getChild(trie, c, pos + 1, zeros + 1)

parentAt(trie, z, p) ==
  IF ULess(z, 2) THEN [st |-> "ok", pos |-> p, zeros |-> z, c |-> 0]
  ELSE IF ~InRange(trie.edges, z - 2) THEN Panic
  ELSE [st |-> "ok", pos |-> p, zeros |-> z, c |-> trie.edges[z - 2 + 1]]

\* one step towards the root: the new (pos, zeros) and the edge label
getParent(trie, pos, zeros) ==
  parentAt(trie, pos - zeros + 1, Select0(trie.louds, pos - zeros))

RECURSIVE parentWalk(_, _, _, _, _)
parentStep(trie, keyBuf, fuel, g) ==
  IF g.st # "ok" THEN g
  ELSE IF g.pos = 0 THEN [st |-> "ok", key |-> keyBuf]
  ELSE parentWalk(trie, g.pos, g.zeros, <<g.c>> \o keyBuf, fuel - 1)

\* DecodeKey's loop: the labels from the node up to the root
parentWalk(trie, pos, zeros, keyBuf, fuel) ==
  IF fuel = 0 THEN Hang
  ELSE parentStep(trie, keyBuf, fuel, getParent(trie, pos, zeros))

RECURSIVE DecodeKey(_, _)

\* the secondary trie's key, its runes reversed
unreverse(d) ==
  IF d.st # "ok" THEN d
  ELSE [st |-> "ok", s |-> FromRunes(Reverse(ToRunes(d.key)))]

\* the tail string number tailID
getTail(trie, tailID) ==
  IF trie.hasTailTrie
    THEN IF trie.tailTrie = NoTrie THEN Panic
         ELSE unreverse(DecodeKey(trie.tailTrie,
                GetBits(trie.tailIDs, trie.tailIDSize * tailID, trie.tailIDSize)))
    ELSE IF InRange(trie.vtails, tailID)
      THEN [st |-> "ok", s |-> trie.vtails[tailID + 1]]
      ELSE Panic

\* the terminal.NumOfBits(true) < id test DecodeKey starts with
beyondKeys(trie, id) == ULess(NumOfBits(trie.terminal), id)

withTail(key, t) ==
  IF t.st # "ok" THEN t
  ELSE [st |-> "ok", key |-> key \o t.s, found |-> TRUE]

decodeAt(trie, node, w) ==
  IF w.st # "ok" THEN w
  ELSE IF Get(trie.tail, node)
    THEN withTail(w.key, getTail(trie, Rank1(trie.tail, node)))
  ELSE [st |-> "ok", key |-> w.key, found |-> TRUE]

decodeNode(trie, node, pos) ==
  decodeAt(trie, node, parentWalk(trie, pos, pos - node, <<>>, Fuel(trie)))

decodeFrom(trie, node) ==
  decodeNode(trie, node, Select1(trie.louds, node) + 1)

DecodeKey(trie, id) ==
  IF beyondKeys(trie, id) THEN [st |-> "ok", key |-> <<>>, found |-> FALSE]
  ELSE decodeFrom(trie, Select1(trie.terminal, id))

GetNumOfKeys(trie) == trie.numOfKeys

matchTail(str, strlen, depth, t) ==
  IF t.st # "ok" THEN t
  ELSE IF ULess(strlen - depth, Len(t.s))
    THEN [st |-> "ok", ok |-> FALSE, retLen |-> 0]
  ELSE IF \E i \in 0..(Len(t.s) - 1) :
            /\ ~InRange(str, i + depth)
            /\ \A j \in 0..(i - 1) :
                 InRange(str, j + depth) /\ str[j + depth + 1] = t.s[j + 1]
    THEN Panic
  ELSE IF \E i \in 0..(Len(t.s) - 1) :
            InRange(str, i + depth) /\ str[i + depth + 1] # t.s[i + 1]
    THEN [st |-> "ok", ok |-> FALSE, retLen |-> 0]
  ELSE [st |-> "ok", ok |-> TRUE, retLen |-> Len(t.s)]

\* does str[depth:] start with tail number tailID, and the tail's length
tailMatch(trie, str, strlen, depth, tailID) ==
  matchTail(str, strlen, depth, getTail(trie, tailID))

\* a tail node that did not move the cursor over the tail
tailNodeShort(trie, ones, keyPos, m) ==
  IF m.st # "ok" THEN m
  ELSE IF m.ok
    THEN [st |-> "ok", id |-> Rank1(trie.terminal, ones), keyPos |-> keyPos]
  ELSE [st |-> "ok", id |-> NotFound, keyPos |-> keyPos]

tailNode(trie, ones, keyPos, m) ==
  IF m.st # "ok" THEN m
  ELSE IF m.ok
    THEN [st |-> "ok", id |-> Rank1(trie.terminal, ones), keyPos |-> keyPos + m.retLen]
  ELSE [st |-> "ok", id |-> NotFound, keyPos |-> keyPos]

\* the id of the node Traverse stands on: a tail node needs its tail to
\* match, another node its terminal bit
nodeID(trie, key, keyLen, ones, keyPos) ==
  IF Get(trie.tail, ones)
    THEN tailNode(trie, ones, keyPos,
                  tailMatch(trie, key, keyLen, keyPos, Rank1(trie.tail, ones)))
    ELSE IF Get(trie.terminal, ones)
      THEN [st |-> "ok", id |-> Rank1(trie.terminal, ones), keyPos |-> keyPos]
    ELSE [st |-> "ok", id |-> NotFound, keyPos |-> keyPos]

\* a step that reported cannot-proceed for every node without an id
stepResultIdOnly(n, c) ==
  IF c.st # "ok" THEN c
  ELSE [st |-> "ok", id |-> n.id,
        can |-> n.id # NotFound,
        nodePos |-> c.pos, zeros |-> c.zeros, keyPos |-> n.keyPos + 1]

stepResult(n, c) ==
  IF c.st # "ok" THEN c
  ELSE [st |-> "ok", id |-> n.id,
        can |-> ~(n.id = NotFound /\ c.pos = NotFound),
        nodePos |-> c.pos, zeros |-> c.zeros, keyPos |-> n.keyPos + 1]

descend(trie, key, keyLen, np, z, n) ==
  IF n.st # "ok" THEN n
  ELSE stepResult(n,
         IF ULess(n.keyPos, keyLen)
           THEN IF InRange(key, n.keyPos)
                  THEN getChild(trie, key[n.keyPos + 1], np, z)
                  ELSE Panic
           ELSE [st |-> "ok", pos |-> NotFound, zeros |-> z])

traverseAt(trie, key, keyLen, np, z, keyPos) ==
  descend(trie, key, keyLen, np, z, nodeID(trie, key, keyLen, np - z, keyPos))

\* one step of the traversal: the id at the current node and whether the
\* walk can go on, with the three cursors as the call leaves them
Traverse(trie, key, keyLen, nodePos, zeros, keyPos) ==
  IF nodePos = NotFound
    THEN [st |-> "ok", id |-> NotFound, can |-> FALSE,
          nodePos |-> nodePos, zeros |-> zeros, keyPos |-> keyPos]
  ELSE traverseAt(trie, key, keyLen, max(nodePos, defaultPos),
                  max(zeros, defaultPos), keyPos)

RECURSIVE exactLoop(_, _, _, _, _)
exactStep(trie, key, t) ==
  IF t.st # "ok" THEN t
  ELSE IF ~t.can THEN [st |-> "ok", id |-> NotFound, found |-> FALSE]
  ELSE IF t.keyPos = Len(key) + 1 THEN [st |-> "ok", id |-> t.id, found |-> TRUE]
  ELSE exactLoop(trie, key, t.nodePos, t.zeros, t.keyPos)

exactLoop(trie, key, nodePos, zeros, keyPos) ==
  IF ~(keyPos <= Len(key)) THEN [st |-> "ok", id |-> NotFound, found |-> FALSE]
  ELSE exactStep(trie, key, Traverse(trie, key, Len(key), nodePos, zeros, keyPos))

ExactMatchSearch(trie, key) == exactLoop(trie, key, 0, 0, 0)

RECURSIVE prefixLoop(_, _, _, _, _, _, _)
\* a limit test that let one entry too many through
prefixAddLate(trie, key, limit, t, r) ==
  IF Len(r) = limit + 1 THEN [st |-> "ok", res |-> r]
  ELSE prefixLoop(trie, key, limit, t.nodePos, t.zeros, t.keyPos, r)

prefixAdd(trie, key, limit, t, r) ==
  IF Len(r) = limit THEN [st |-> "ok", res |-> r]
  ELSE prefixLoop(trie, key, limit, t.nodePos, t.zeros, t.keyPos, r)

\* a loop body that took the cursor itself for the length
prefixStepLong(trie, key, limit, res, t) ==
  IF t.st # "ok" THEN t
  ELSE IF ~t.can THEN [st |-> "ok", res |-> res]
  ELSE IF t.id # NotFound
    THEN prefixAdd(trie, key, limit, t,
                   Append(res, [ID |-> t.id, Length |-> t.keyPos]))
  ELSE prefixLoop(trie, key, limit, t.nodePos, t.zeros, t.keyPos, res)

prefixStep(trie, key, limit, res, t) ==
  IF t.st # "ok" THEN t
  ELSE IF ~t.can THEN [st |-> "ok", res |-> res]
  ELSE IF t.id # NotFound
    THEN prefixAdd(trie, key, limit, t,
                   Append(res, [ID |-> t.id, Length |-> t.keyPos - 1]))
  ELSE prefixLoop(trie, key, limit, t.nodePos, t.zeros, t.keyPos, res)

prefixLoop(trie, key, limit, nodePos, zeros, keyPos, res) ==
  prefixStep(trie, key, limit, res,
             Traverse(trie, key, Len(key), nodePos, zeros, keyPos))

CommonPrefixSearch(trie, key, limit) ==
  prefixLoop(trie, key, IF limit = 0 THEN noLimit ELSE limit, 0, 0, 0, <<>>)

RECURSIVE enumerateAll(_, _, _, _, _, _)
RECURSIVE enumChildren(_, _, _, _, _, _, _)

enumNext(trie, pos, zeros, i, limit, fuel, r) ==
  IF r.st # "ok" THEN r
  ELSE enumChildren(trie, pos, zeros, i + 1, r.res, limit, fuel - 1)

enumChild(trie, pos, zeros, i, res, limit, fuel, nextPos) ==
  enumNext(trie, pos, zeros, i, limit, fuel,
           enumerateAll(trie, nextPos, nextPos - zeros - i + 1, res, limit, fuel - 1))

\* a loop that went on until the result was beyond the limit
enumChildrenLate(trie, pos, zeros, i, res, limit, fuel) ==
  IF fuel = 0 THEN Hang
  ELSE IF ~ULess(Len(res), limit) /\ Len(res) # limit
    THEN [st |-> "ok", res |-> res]
  ELSE IF Get(trie.louds, pos + i) THEN [st |-> "ok", res |-> res]
  ELSE enumChild(trie, pos, zeros, i, res, limit, fuel,
                 Select1(trie.louds, zeros + i - 1) + 1)

\* enumerateAll's loop over the child slots pos+i of the node
enumChildren(trie, pos, zeros, i, res, limit, fuel) ==
  IF fuel = 0 THEN Hang
  ELSE IF ~ULess(Len(res), limit) THEN [st |-> "ok", res |-> res]
  ELSE IF Get(trie.louds, pos + i) THEN [st |-> "ok", res |-> res]
  ELSE enumChild(trie, pos, zeros, i, res, limit, fuel,
                 Select1(trie.louds, zeros + i - 1) + 1)

\* the ids of the subtree of the node at (pos, zeros), appended to res
enumerateAll(trie, pos, zeros, res, limit, fuel) ==
  IF fuel = 0 THEN Hang
  ELSE enumChildren(trie, pos, zeros, 0,
         IF Get(trie.terminal, pos - zeros)
           THEN Append(res, Rank1(trie.terminal, pos - zeros))
           ELSE res,
         limit, fuel)

\* PredictiveSearch at a node with a tail: the rest of the key against the
\* tail, byte by byte
tailPrefix(key, i, tail) ==
  IF \E j \in i..(Len(key) - 1) :
       /\ ~InRange(tail, j - i)
       /\ \A k \in i..(j - 1) : InRange(tail, k - i) /\ key[k + 1] = tail[k - i + 1]
    THEN "panic"
  ELSE IF \E j \in i..(Len(key) - 1) : InRange(tail, j - i) /\ key[j + 1] # tail[j - i + 1]
    THEN "differ"
  ELSE "match"

predictTail(trie, ones, m) ==
  IF m = "panic" THEN Panic
  ELSE IF m = "differ" THEN [st |-> "ok", res |-> <<>>]
  ELSE [st |-> "ok", res |-> <<Rank1(trie.terminal, ones)>>]

predictAtTail(trie, key, i, ones, t) ==
  IF t.st # "ok" THEN t
  ELSE predictTail(trie, ones, tailPrefix(key, i, t.s))

RECURSIVE predictLoop(_, _, _, _, _, _)
predictChild(trie, key, limit, i, c) ==
  IF c.st # "ok" THEN c
  ELSE IF c.pos = NotFound THEN [st |-> "ok", res |-> <<>>]
  ELSE predictLoop(trie, key, limit, i + 1, c.pos, c.zeros)

predictLoop(trie, key, limit, i, pos, zeros) ==
  IF ~(i < Len(key))
    THEN enumerateAll(trie, pos, zeros, <<>>, limit, Fuel(trie))
  ELSE IF Get(trie.tail, pos - zeros)
    THEN predictAtTail(trie, key, i, pos - zeros,
                       getTail(trie, Rank1(trie.tail, pos - zeros)))
  ELSE predictChild(trie, key, limit, i, getChild(trie, key[i + 1], pos, zeros))

PredictiveSearch(trie, key, limit) ==
  predictLoop(trie, key, IF limit = 0 THEN noLimit ELSE limit, 0, 2, 2)

\* ------------------------------------------------------ builder, tails
idOf(r) == IF r.st = "ok" THEN r.id ELSE NotFound

RECURSIVE tailIDBits(_, _, _)
\* the ids of the reversed tails in the secondary trie, size bits each
tailIDBits(tailTrie, origKeyList, size) ==
  IF origKeyList = <<>> THEN <<>>
  ELSE PushBackBits(
         tailIDBits(tailTrie, SubSeq(origKeyList, 1, Len(origKeyList) - 1), size),
         idOf(ExactMatchSearch(tailTrie, origKeyList[Len(origKeyList)])), size)

storeTailTrie(trie, origKeyList, tailTrie, size) ==
  [trie EXCEPT !.tailTrie = tailTrie,
               !.tailIDSize = size,
               !.tailIDs = tailIDBits(tailTrie, origKeyList, size),
               !.hasTailTrie = TRUE,
               !.vtails = <<>>]

tailTrieOf(trie, origKeyList, tailTrie) ==
  storeTailTrie(trie, origKeyList, tailTrie, lg2(GetNumOfKeys(tailTrie)))

reversedTails(origTails) ==
  [i \in 1..Len(origTails) |-> reverseString(origTails[i])]

tailTrieFrom(trie, keyList) ==
  tailTrieOf(trie, keyList, buildLouds(ZeroTrie, keyList))

\* the secondary trie of the reversed tails, built by a fresh builder
\* without a tail trie of its own
buildTailTrie(trie) == tailTrieFrom(trie, reversedTails(trie.vtails))

tailStage(trie, useTailTrie) ==
  IF useTailTrie THEN buildTailTrie(trie) ELSE trie

\* Build(keyList, useTailTrie) on the builder whose TrieData is trie: the
\* TrieData as the call leaves it
Build(trie, keyList, useTailTrie) ==
  tailStage(buildLouds(trie, keyList), useTailTrie)

\* ----------------------------------------------------------------- codec
sizeOfInt32 == 4
sizeOfInt64 == 8

RECURSIVE LittleEndian(_, _)
\* binary.Write of an n-byte unsigned integer, little-endian
LittleEndian(n, x) ==
  IF n = 0 THEN <<>> ELSE <<x % 256>> \o LittleEndian(n - 1, x \div 256)

\* low byte lo in front of the number hi, or MaxUint
uintOf(lo, hi) == IF hi * 256 + lo >= MaxUint THEN MaxUint ELSE hi * 256 + lo

RECURSIVE Uint(_)
\* binary.LittleEndian.Uint32 / Uint64 of the bytes b; every number from
\* MaxUint on is MaxUint
Uint(b) == IF b = <<>> THEN 0 ELSE uintOf(b[1], Uint(Tail(b)))

\* the bit vector's serialized form: the bit count, then the bits packed
\* eight to a byte
vectorBinary(v) ==
  LittleEndian(sizeOfInt64, Len(v)) \o
    [i \in 1..((Len(v) + 7) \div 8) |-> BitsValue(v, 8 * (i - 1), 8)]

Invalid == [st |-> "err"]

vectorBits(b, n) ==
  IF Len(b) # sizeOfInt64 + (n + 7) \div 8 THEN Invalid
  ELSE [st |-> "ok",
        v |-> [i \in 1..n |->
                 (b[sizeOfInt64 + 1 + (i - 1) \div 8] \div (2 ^ ((i - 1) % 8))) % 2]]

\* the bit vector a serialized form holds, or its error
NewVectorFromBinary(b) ==
  IF Len(b) < sizeOfInt64 THEN Invalid
  ELSE vectorBits(b, Uint(SubSeq(b, 1, sizeOfInt64)))

\* A []byte is its backing array from the slice's start to its capacity,
\* and its length.
bytesOf(buf) == SubSeq(buf.arr, 1, buf.len)

\* data[lo:hi]: panics when hi is beyond the capacity
sliceTo(data, lo, hi) ==
  IF hi < lo \/ hi > Len(data.arr) THEN Panic
  ELSE [st |-> "ok", arr |-> SubSeq(data.arr, lo + 1, Len(data.arr)), len |-> hi - lo]

slice(data, lo, n) == sliceTo(data, lo, lo + n)

\* the length test that follows each slice expression
lengthChecked(buf, off, n) ==
  IF buf.st # "ok" THEN buf
  ELSE IF buf.len < n THEN Invalid
  ELSE [st |-> "ok", buf |-> buf, off |-> off + n]

\* buf = data[offset : offset+n], its test, offset += n
readField(data, off, n) == lengthChecked(slice(data, off, n), off, n)

sizedAt(data, f) ==
  IF f.st # "ok" THEN f ELSE readField(data, f.off, Uint(bytesOf(f.buf)))

\* a 4-byte size and the bytes it announces
readSized(data, off) == sizedAt(data, readField(data, off, sizeOfInt32))

parsedVector(off, r) ==
  IF r.st # "ok" THEN r ELSE [st |-> "ok", v |-> r.v, off |-> off]

vectorAt(f) ==
  IF f.st # "ok" THEN f ELSE parsedVector(f.off, NewVectorFromBinary(bytesOf(f.buf)))

readVector(data, off) == vectorAt(readSized(data, off))

\* an assignment of the parsed fields that forgot the label array
assignFieldsNoEdges(trie, newtrie) ==
  [st |-> "ok",
   trie |-> [newtrie EXCEPT !.edges = trie.edges]]

\* the receiver takes the parsed fields: the last step of UnmarshalBinary
assignFields(trie, newtrie) ==
  [st |-> "ok",
   trie |-> IF newtrie.hasTailTrie
     THEN [trie EXCEPT !.numOfKeys = newtrie.numOfKeys, !.louds = newtrie.louds,
                       !.terminal = newtrie.terminal, !.tail = newtrie.tail,
                       !.edges = newtrie.edges, !.hasTailTrie = TRUE,
                       !.tailTrie = newtrie.tailTrie,
                       !.tailIDSize = newtrie.tailIDSize,
                       !.tailIDs = newtrie.tailIDs]
     ELSE [trie EXCEPT !.numOfKeys = newtrie.numOfKeys, !.louds = newtrie.louds,
                       !.terminal = newtrie.terminal, !.tail = newtrie.tail,
                       !.edges = newtrie.edges, !.hasTailTrie = FALSE,
                       !.vtails = newtrie.vtails]]

RECURSIVE vtailLoop(_, _, _, _, _, _)
vtailNext(trie, data, newtrie, vtailSize, i, f) ==
  IF f.st # "ok" THEN f
  ELSE vtailLoop(trie, data, [newtrie EXCEPT !.vtails = Append(@, bytesOf(f.buf))],
                 vtailSize, i + 1, f.off)

\* the loop over the vtailSize tail strings
vtailLoop(trie, data, newtrie, vtailSize, i, off) ==
  IF ~(i < vtailSize) THEN assignFields(trie, newtrie)
  ELSE vtailNext(trie, data, newtrie, vtailSize, i, readSized(data, off))

parseVtails(trie, data, newtrie, f) ==
  IF f.st # "ok" THEN f
  ELSE vtailLoop(trie, data, newtrie, Uint(bytesOf(f.buf)), 0, f.off)

storeTailIDs(trie, newtrie, f) ==
  IF f.st # "ok" THEN f
  ELSE assignFields(trie, [newtrie EXCEPT !.tailIDs = f.v])

parseTailIDs(trie, data, newtrie, f) ==
  IF f.st # "ok" THEN f
  ELSE storeTailIDs(trie, [newtrie EXCEPT !.tailIDSize = Uint(bytesOf(f.buf))],
                    readVector(data, f.off))

parseTailIDSize(trie, data, newtrie, off, u) ==
  IF u.st # "ok" THEN u
  ELSE parseTailIDs(trie, data, [newtrie EXCEPT !.tailTrie = u.trie],
                    readField(data, off, sizeOfInt64))

RECURSIVE UnmarshalBinary(_, _)
parseTailTrie(trie, data, newtrie, f) ==
  IF f.st # "ok" THEN f
  ELSE parseTailIDSize(trie, data, newtrie, f.off, UnmarshalBinary(ZeroTrie, f.buf))

\* hasTailTrie is true for every value of the field but 0
parseRest(trie, data, newtrie, f) ==
  IF f.st # "ok" THEN f
  ELSE IF Uint(bytesOf(f.buf)) = 0
    THEN parseVtails(trie, data, [newtrie EXCEPT !.hasTailTrie = FALSE],
                     readField(data, f.off, sizeOfInt32))
  ELSE parseTailTrie(trie, data, [newtrie EXCEPT !.hasTailTrie = TRUE],
                     readSized(data, f.off))

parseFlag(trie, data, newtrie, f) ==
  IF f.st # "ok" THEN f
  ELSE parseRest(trie, data, [newtrie EXCEPT !.edges = bytesOf(f.buf)],
                 readField(data, f.off, sizeOfInt32))

parseEdges(trie, data, newtrie, f) ==
  IF f.st # "ok" THEN f
  ELSE parseFlag(trie, data, [newtrie EXCEPT !.tail = f.v], readSized(data, f.off))

parseTail(trie, data, newtrie, f) ==
  IF f.st # "ok" THEN f
  ELSE parseEdges(trie, data, [newtrie EXCEPT !.terminal = f.v],
                  readVector(data, f.off))

parseTerminal(trie, data, newtrie, f) ==
  IF f.st # "ok" THEN f
  ELSE parseTail(trie, data, [newtrie EXCEPT !.louds = f.v], readVector(data, f.off))

parseLouds(trie, data, f) ==
  IF f.st # "ok" THEN f
  ELSE parseTerminal(trie, data,
                     [ZeroTrie EXCEPT !.numOfKeys = Uint(bytesOf(f.buf))],
                     readVector(data, f.off))

\* trie.UnmarshalBinary(data): st is "ok" with the receiver as the call
\* leaves it, "err" for ErrorInvalidFormat with the receiver untouched, or
\* "panic"
UnmarshalBinary(trie, data) ==
  parseLouds(trie, data, readField(data, 0, sizeOfInt64))

returned(trie, u) ==
  IF u.st = "panic" THEN u
  ELSE IF u.st = "err" THEN [st |-> "ok", err |-> TRUE, trie |-> trie]
  ELSE [st |-> "ok", err |-> FALSE, trie |-> u.trie]

\* NewTrieFromBinary(binData): a new TrieData and UnmarshalBinary's error
NewTrieFromBinary(binData) == returned(ZeroTrie, UnmarshalBinary(ZeroTrie, binData))

\* a 4-byte length and the bytes
sized(b) == LittleEndian(sizeOfInt32, Len(b)) \o b

RECURSIVE marshalTails(_)
marshalTails(vtails) ==
  IF vtails = <<>> THEN <<>>
  ELSE sized(Head(vtails)) \o marshalTails(Tail(vtails))

RECURSIVE MarshalBinary(_)
\* trie.MarshalBinary(): the bytes
MarshalBinary(trie) ==
  LittleEndian(sizeOfInt64, trie.numOfKeys)
    \o sized(vectorBinary(trie.louds))
    \o sized(vectorBinary(trie.terminal))
    \o sized(vectorBinary(trie.tail))
    \o sized(trie.edges)
    \o LittleEndian(sizeOfInt32, IF trie.hasTailTrie THEN 1 ELSE 0)
    \o IF trie.hasTailTrie
         THEN sized(MarshalBinary(trie.tailTrie))
                \o LittleEndian(sizeOfInt64, trie.tailIDSize)
                \o sized(vectorBinary(trie.tailIDs))
         ELSE LittleEndian(sizeOfInt32, Len(trie.vtails))
                \o marshalTails(trie.vtails)

\* ---------------------------------------------------------------- inputs

Strings(n) == UNION {[1..k -> Bytes] : k \in 0..n}

\* the key lists handed to Build: any order, duplicates allowed
KeyLists == UNION {[1..k -> Strings(MaxLen)] : k \in 0..MaxKeys}

\* the key lists of the runs that call Build more than once
ShortKeyLists == UNION {[1..k -> Strings(MaxLen - 1)] : k \in 0..MaxKeys}

\* the queries: every string up to one byte longer than the longest key,
\* and each of them as a conversion to runes and back rewrites it
Queries ==
  Strings(MaxLen + 1) \cup {FromRunes(ToRunes(q)) : q \in Strings(MaxLen + 1)}

Limits == 0..MaxKeys

Ids == 0..(MaxKeys + 1) \cup {NotFound}

\* ----------------------------------------------------------------- state
VARIABLES
  heap,      \* the TrieData objects, by address
  builder,   \* the TrieBuilderData: the address of its trie
  handles,   \* per Build call, in order: the Trie it returned (an address),
             \* its arguments, and the TrieData's value at the return
  keyList,   \* the caller's slice passed to the last Build, as the call left it
  out        \* the call the caller has made and its result, until the
             \* caller takes it

vars == <<heap, builder, handles, keyList, out>>

\* NewTrieBuilder: a builder owning one zero TrieData
Init ==
  /\ heap = <<ZeroTrie>>
  /\ builder = [trie |-> 1]
  /\ handles = <<>>
  /\ keyList = <<>>
  /\ out = [op |-> "none"]

\* the caller has no call outstanding
Idle == out.op \in {"none", "idle"}

\* the address of the TrieData that Build fills and returns
buildTarget == builder.trie

\* a Build that also wrote its duplicate-free list back to the caller
callerSliceDeduped(kl) == removeDuplicates(SortStrings(kl))

\* the caller's slice after Build: sort.Strings sorts it in place, and
\* removeDuplicates builds a new slice, which the caller never sees
callerSlice(kl) == SortStrings(kl)

built(a, kl, useTailTrie, t) ==
  /\ heap' = [heap EXCEPT ![a] = t]
  /\ handles' = Append(handles, [addr |-> a, keys |-> kl,
                                 flag |-> useTailTrie, ret |-> t])
  /\ keyList' = callerSlice(kl)
  /\ out' = [op |-> "Build"]
  /\ UNCHANGED builder

\* builder.Build(kl, useTailTrie): sorts the caller's slice in place, fills
\* the builder's TrieData and returns it
DoBuild(kl, useTailTrie) ==
  built(buildTarget, kl, useTailTrie, Build(heap[buildTarget], kl, useTailTrie))

\* the first Build on the builder
BuildFirst ==
  /\ Idle
  /\ handles = <<>>
  /\ \E kl \in KeyLists, f \in BOOLEAN : DoBuild(kl, f)

\* any Build on the builder, the first or a later one
BuildAny ==
  /\ Idle
  /\ Len(handles) < MaxBuilds
  /\ \E kl \in ShortKeyLists, f \in BOOLEAN : DoBuild(kl, f)

\* the TrieData behind the Trie that Build call number h returned
Obj(h) == heap[handles[h].addr]

\* the strings Build call h was given
KeysOf(h) == {handles[h].keys[i] : i \in 1..Len(handles[h].keys)}

DoExactMatchSearch ==
  /\ Idle
  /\ \E h \in 1..Len(handles), q \in Queries :
       /\ out' = [op |-> "ExactMatchSearch", h |-> h, key |-> q,
                  r |-> ExactMatchSearch(Obj(h), q)]
       /\ UNCHANGED <<heap, builder, handles, keyList>>

DoCommonPrefixSearch ==
  /\ Idle
  /\ \E h \in 1..Len(handles), q \in Queries, limit \in Limits :
       /\ out' = [op |-> "CommonPrefixSearch", h |-> h, key |-> q, limit |-> limit,
                  r |-> CommonPrefixSearch(Obj(h), q, limit)]
       /\ UNCHANGED <<heap, builder, handles, keyList>>

DoPredictiveSearch ==
  /\ Idle
  /\ \E h \in 1..Len(handles), q \in Queries, limit \in Limits :
       /\ out' = [op |-> "PredictiveSearch", h |-> h, key |-> q, limit |-> limit,
                  r |-> PredictiveSearch(Obj(h), q, limit)]
       /\ UNCHANGED <<heap, builder, handles, keyList>>

DoDecodeKey ==
  /\ Idle
  /\ \E h \in 1..Len(handles), id \in Ids :
       /\ out' = [op |-> "DecodeKey", h |-> h, id |-> id, r |-> DecodeKey(Obj(h), id)]
       /\ UNCHANGED <<heap, builder, handles, keyList>>

DoGetNumOfKeys ==
  /\ Idle
  /\ \E h \in 1..Len(handles) :
       /\ out' = [op |-> "GetNumOfKeys", h |-> h, r |-> GetNumOfKeys(Obj(h))]
       /\ UNCHANGED <<heap, builder, handles, keyList>>

\* the caller takes the result of its call
Return ==
  /\ ~Idle
  /\ out' = [op |-> "idle"]
  /\ UNCHANGED <<heap, builder, handles, keyList>>

DoMarshalBinary ==
  /\ Idle
  /\ \E h \in 1..Len(handles) :
       /\ out' = [op |-> "MarshalBinary", h |-> h, r |-> MarshalBinary(Obj(h))]
       /\ UNCHANGED <<heap, builder, handles, keyList>>

\* the buffers a caller makes of the serialized form bin: its first n
\* bytes, as a slice of bin (the capacity reaches to bin's end) or as a
\* buffer of their own (the capacity is n; n = 0 is the nil buffer)
Buffers(bin) ==
  {[arr |-> bin, len |-> n] : n \in 0..Len(bin)}
    \cup {[arr |-> SubSeq(bin, 1, n), len |-> n] : n \in 0..Len(bin)}

parseOf(h, bin) ==
  \E data \in Buffers(bin) :
     out' = [op |-> "NewTrieFromBinary", h |-> h, data |-> data, full |-> Len(bin),
             r |-> NewTrieFromBinary(data)]

\* NewTrieFromBinary on the serialized form of a built trie or on a
\* truncation of it
DoNewTrieFromBinary ==
  /\ Idle
  /\ \E h \in 1..Len(handles) : parseOf(h, MarshalBinary(Obj(h)))
  /\ UNCHANGED <<heap, builder, handles, keyList>>

\* where the hasTailTrie field lies in the serialized form of trie
flagOffset(trie) ==
  sizeOfInt64
    + Len(sized(vectorBinary(trie.louds)))
    + Len(sized(vectorBinary(trie.terminal)))
    + Len(sized(vectorBinary(trie.tail)))
    + Len(sized(trie.edges))

\* the serialized form bin with x written over its hasTailTrie field
withFlag(bin, off, x) ==
  SubSeq(bin, 1, off) \o LittleEndian(sizeOfInt32, x)
    \o SubSeq(bin, off + sizeOfInt32 + 1, Len(bin))

\* values of the hasTailTrie field that are neither 0 nor 1
FlagValues == {2, 256}

flaggedParse(h, x, bin) ==
  out' = [op |-> "NewTrieFromBinaryFlag", h |-> h, flag |-> x,
          r |-> NewTrieFromBinary([arr |-> bin, len |-> Len(bin)])]

\* NewTrieFromBinary on the serialized form of a built trie in which the
\* hasTailTrie field holds another value than 0 and 1
DoNewTrieFromBinaryFlag ==
  /\ Idle
  /\ \E h \in 1..Len(handles), x \in FlagValues :
       flaggedParse(h, x, withFlag(MarshalBinary(Obj(h)), flagOffset(Obj(h)), x))
  /\ UNCHANGED <<heap, builder, handles, keyList>>

\* a parse that cleared the receiver before it reported its error
receiverCleared(trie, u) ==
  IF u.st = "ok" THEN u.trie ELSE IF u.st = "err" THEN ZeroTrie ELSE trie

\* the receiver as trie.UnmarshalBinary leaves it: its fields are assigned
\* after the last test, from the TrieData the parse filled
receiverAfter(trie, u) == IF u.st = "ok" THEN u.trie ELSE trie

\* what UnmarshalBinary returns: nil or ErrorInvalidFormat
errorOf(u) == IF u.st = "panic" THEN Panic ELSE [st |-> "ok", err |-> u.st = "err"]

\* where the bit count of each of the three vectors lies in the serialized
\* form of trie
countOffsets(trie) ==
  {sizeOfInt64 + sizeOfInt32,
   sizeOfInt64 + Len(sized(vectorBinary(trie.louds))) + sizeOfInt32,
   sizeOfInt64 + Len(sized(vectorBinary(trie.louds)))
     + Len(sized(vectorBinary(trie.terminal))) + sizeOfInt32}

\* bin with the byte at offset off raised by d
withByte(bin, off, d) == [bin EXCEPT ![off + 1] = (@ + d) % 256]

\* the serialized form of trie, whole, and with the bit count of one of
\* its vectors raised by a byte's worth of bits
Damaged(trie) ==
  {MarshalBinary(trie)}
    \cup {withByte(MarshalBinary(trie), off, 8) : off \in countOffsets(trie)}

unmarshalled(h, g, bin, u) ==
  /\ heap' = [heap EXCEPT ![handles[h].addr] = receiverAfter(@, u)]
  /\ out' = [op |-> "UnmarshalBinary", h |-> h, g |-> g, bin |-> bin,
             before |-> Obj(h), r |-> errorOf(u)]

unmarshalOf(h, g, bin) ==
  unmarshalled(h, g, bin, UnmarshalBinary(Obj(h), [arr |-> bin, len |-> Len(bin)]))

\* trie.UnmarshalBinary on a trie that Build returned, with the serialized
\* form, whole or damaged, of a trie as a Build call returned it
DoUnmarshalBinary ==
  /\ Idle
  /\ \E h, g \in 1..Len(handles) : \E bin \in Damaged(handles[g].ret) :
       unmarshalOf(h, g, bin)
  /\ UNCHANGED <<builder, handles, keyList>>

\* the cursors a caller starts a walk with: the root, as the searches do,
\* or nodePos = NotFound with any zeros and keyPos
Starts ==
  {[nodePos |-> 0, zeros |-> 0, keyPos |-> 0]}
    \cup {[nodePos |-> NotFound, zeros |-> z, keyPos |-> k] :
            z \in {0, defaultPos}, k \in 0..1}

\* the calls of one walk
MaxCalls == MaxLen + 3

\* call number n of a walk: the cursors the caller passes, and the result
\* with the cursors as the call leaves them
traversed(h, key, nodePos, zeros, keyPos, n) ==
  out' = [op |-> "Traverse", h |-> h, key |-> key, n |-> n,
          nodePos |-> nodePos, zeros |-> zeros, keyPos |-> keyPos,
          stopped |-> out.op = "Traverse" /\ out.r.st = "ok" /\ ~out.r.can,
          r |-> Traverse(Obj(h), key, Len(key), nodePos, zeros, keyPos)]

\* the first Traverse call of a walk
DoTraverse ==
  /\ Idle
  /\ \E h \in 1..Len(handles), q \in Queries, c \in Starts :
       traversed(h, q, c.nodePos, c.zeros, c.keyPos, 1)
  /\ UNCHANGED <<heap, builder, handles, keyList>>

\* the next Traverse call of the walk, on the cursors the last call left
DoTraverseNext ==
  /\ out.op = "Traverse"
  /\ out.r.st = "ok"
  /\ out.n < MaxCalls
  /\ traversed(out.h, out.key, out.r.nodePos, out.r.zeros, out.r.keyPos, out.n + 1)
  /\ UNCHANGED <<heap, builder, handles, keyList>>

\* a call that has not returned yet; ExactMatchSearch keeps its cursors
\* here between two passes of its loop
Running(nodePos, zeros, keyPos) ==
  [st |-> "run", nodePos |-> nodePos, zeros |-> zeros, keyPos |-> keyPos]

\* the end of one pass of ExactMatchSearch's loop
exactPass(key, t) ==
  IF t.st # "ok" THEN t
  ELSE IF ~t.can THEN [st |-> "ok", id |-> NotFound, found |-> FALSE]
  ELSE IF t.keyPos = Len(key) + 1 THEN [st |-> "ok", id |-> t.id, found |-> TRUE]
  ELSE Running(t.nodePos, t.zeros, t.keyPos)

\* one pass of ExactMatchSearch's loop on the cursors c of the call
exactTurn(trie, key, c) ==
  IF ~(c.keyPos <= Len(key)) THEN [st |-> "ok", id |-> NotFound, found |-> FALSE]
  ELSE exactPass(key, Traverse(trie, key, Len(key), c.nodePos, c.zeros, c.keyPos))

\* the next step of a reader's call: one pass of the loop for
\* ExactMatchSearch, the whole call for the other queries
readerTurn(trie, call) ==
  CASE call.kind = "ExactMatchSearch" -> exactTurn(trie, call.key, call.r)
    [] call.kind = "CommonPrefixSearch" -> CommonPrefixSearch(trie, call.key, 0)
    [] call.kind = "PredictiveSearch" -> PredictiveSearch(trie, call.key, 0)
    [] call.kind = "DecodeKey" -> DecodeKey(trie, call.id)
    [] call.kind = "GetNumOfKeys" -> [st |-> "ok", n |-> GetNumOfKeys(trie)]
    [] call.kind = "MarshalBinary" -> [st |-> "ok", bin |-> MarshalBinary(trie)]

\* a query that counted its calls in the trie
afterQueryWritten(trie) == [trie EXCEPT !.numOfKeys = @ + 1]

\* the TrieData as a query leaves it: no query assigns to a field
afterQuery(trie) == trie

\* the calls a reader makes on the trie of Build call h: the searches for
\* its keys and the empty string, DecodeKey of the first ids, the count
\* and the serialization
ReaderCalls(h) ==
  {[kind |-> k, key |-> q, id |-> 0, r |-> Running(0, 0, 0)] :
      k \in {"ExactMatchSearch", "CommonPrefixSearch", "PredictiveSearch"},
      q \in KeysOf(h) \cup {<<>>}}
    \cup {[kind |-> "DecodeKey", key |-> <<>>, id |-> i, r |-> Running(0, 0, 0)] :
            i \in 0..(MaxKeys - 1)}
    \cup {[kind |-> k, key |-> <<>>, id |-> 0, r |-> Running(0, 0, 0)] :
            k \in {"GetNumOfKeys", "MarshalBinary"}}

\* every reader calls a query on the same built trie
DoShare ==
  /\ Idle
  /\ \E h \in 1..Len(handles) : \E c \in [1..NumReaders -> ReaderCalls(h)] :
       out' = [op |-> "Readers", h |-> h, calls |-> c]
  /\ UNCHANGED <<heap, builder, handles, keyList>>

readerStepped(i, a) ==
  /\ out' = [out EXCEPT !.calls[i].r = readerTurn(heap[a], out.calls[i])]
  /\ heap' = [heap EXCEPT ![a] = afterQuery(@)]

\* one reader's call takes its next step, between the steps of the others
ReaderStep ==
  /\ out.op = "Readers"
  /\ \E i \in 1..NumReaders :
       /\ out.calls[i].r.st = "run"
       /\ readerStepped(i, handles[out.h].addr)
  /\ UNCHANGED <<builder, handles, keyList>>

Query ==
  \/ DoExactMatchSearch
  \/ DoCommonPrefixSearch
  \/ DoPredictiveSearch
  \/ DoDecodeKey
  \/ DoGetNumOfKeys

\* one Build on a fresh builder, then queries
Next == BuildFirst \/ Query \/ Return

Spec == Init /\ [][Next]_vars

\* one Build on a fresh builder
NextBuild == BuildFirst \/ Return

SpecBuild == Init /\ [][NextBuild]_vars

\* several Builds on one builder
NextReuse ==
  BuildAny \/ DoExactMatchSearch \/ DoDecodeKey \/ DoGetNumOfKeys \/ Return

SpecReuse == Init /\ [][NextReuse]_vars

\* one Build, then serializing and parsing
NextCodec == BuildFirst \/ DoMarshalBinary \/ DoNewTrieFromBinary \/ Return

SpecCodec == Init /\ [][NextCodec]_vars

\* one Build, then parsing serialized forms with a foreign hasTailTrie
NextFlag == BuildFirst \/ DoNewTrieFromBinaryFlag \/ Return

SpecFlag == Init /\ [][NextFlag]_vars

\* Builds on one builder, and UnmarshalBinary on the tries they returned
NextUnmarshal == BuildAny \/ DoUnmarshalBinary \/ Return

SpecUnmarshal == Init /\ [][NextUnmarshal]_vars

\* one Build, then walks of Traverse calls
NextTraverse == BuildFirst \/ DoTraverse \/ DoTraverseNext \/ Return

SpecTraverse == Init /\ [][NextTraverse]_vars

\* one Build, then readers that query the trie side by side
NextShare == BuildFirst \/ DoShare \/ ReaderStep \/ Return

SpecShare == Init /\ [][NextShare]_vars

\* ------------------------------------------------------------ properties
\* the last Build call, and the set of keys a Build call was given
Last == Len(handles)
Elems(s) == {s[i] : i \in 1..Len(s)}
KeySet(h) == Elems(handles[h].keys)
JustBuilt == out.op = "Build"

IsPrefix(p, k) == Len(p) <= Len(k) /\ SubSeq(k, 1, Len(p)) = p

isFound(r) == r.st = "ok" /\ r.found
Found(trie, k) == isFound(ExactMatchSearch(trie, k))

decodesTo(trie, k, r) ==
  /\ isFound(r)
  /\ DecodeKey(trie, r.id) = [st |-> "ok", key |-> k, found |-> TRUE]

\* k is found and its id decodes back to k
RoundTrips(trie, k) == decodesTo(trie, k, ExactMatchSearch(trie, k))

\* C1: after Build, with either flag, every key of the input is found by
\* ExactMatchSearch and DecodeKey of its id is found and gives the key back
C1_RoundTrip ==
  JustBuilt => \A k \in KeySet(Last) : RoundTrips(Obj(Last), k)

\* the ids of the stored keys that start with p
IdsWithPrefix(trie, h, p) ==
  {ExactMatchSearch(trie, k).id : k \in {x \in KeySet(h) : IsPrefix(p, x)}}

\* C2: PredictiveSearch(p, 0) returns normally, and the set of its ids is
\* the set of ExactMatchSearch ids of the stored keys that start with p
C2_PredictiveClosure ==
  (out.op = "PredictiveSearch" /\ out.limit = 0) =>
     /\ out.r.st = "ok"
     /\ Elems(out.r.res) = IdsWithPrefix(Obj(out.h), out.h, out.key)

\* C3: ExactMatchSearch of a string that is not an input key reports
\* found = false
C3_Absence ==
  (out.op = "ExactMatchSearch" /\ out.key \notin KeySet(out.h)) =>
     out.r.st = "ok" /\ ~out.r.found

\* C4: NewTrieFromBinary of a proper prefix of a trie's serialized form
\* returns ErrorInvalidFormat: it neither panics nor parses bytes that lie
\* beyond the buffer's length
C4_Truncation ==
  (out.op = "NewTrieFromBinary" /\ out.data.len < out.full) =>
     out.r.st = "ok" /\ out.r.err

\* the number of stored keys: the distinct strings of the input
Stored(h) == Cardinality(KeySet(h))

\* C5: DecodeKey(id) is not-found with an empty key for every
\* id >= numOfKeys, and found for every id below
C5_DecodeKeyRange ==
  out.op = "DecodeKey" =>
     IF out.id >= 0 /\ out.id < Stored(out.h)
       THEN out.r.st = "ok" /\ out.r.found
       ELSE out.r = [st |-> "ok", key |-> <<>>, found |-> FALSE]

\* C6: on a trie built from an empty key list every query returns and
\* reports nothing
C6_EmptyTrie ==
  (~Idle /\ ~JustBuilt /\ handles[out.h].keys = <<>>) =>
     /\ out.r # Panic /\ out.r # Hang
     /\ out.op = "ExactMatchSearch" => ~out.r.found
     /\ out.op = "CommonPrefixSearch" => out.r.res = <<>>
     /\ out.op = "PredictiveSearch" => out.r.res = <<>>
     /\ out.op = "DecodeKey" => ~out.r.found
     /\ out.op = "GetNumOfKeys" => out.r = 0

\* the answers of a TrieData to ExactMatchSearch, DecodeKey and GetNumOfKeys
Answers(trie) ==
  [exact |-> [q \in Queries |-> ExactMatchSearch(trie, q)],
   decode |-> [id \in Ids |-> DecodeKey(trie, id)],
   num |-> GetNumOfKeys(trie)]

\* C7: a trie that Build returned answers for ever as it did when it was
\* returned, whatever is built later on the same builder
C7_Immutable ==
  JustBuilt =>
     \A h \in 1..Len(handles) : Answers(Obj(h)) = Answers(handles[h].ret)

\* C8: the trie each Build call returns answers as the trie a fresh builder
\* builds from the same list and flag, and finds and decodes every key
C8_BuilderReuse ==
  JustBuilt =>
     /\ Answers(handles[Last].ret) =
          Answers(Build(ZeroTrie, handles[Last].keys, handles[Last].flag))
     /\ \A k \in KeySet(Last) : RoundTrips(handles[Last].ret, k)

\* C9 as written: Build leaves the caller's list as it was
C9_KeyListUntouched == JustBuilt => keyList = handles[Last].keys

Occurrences(s, x) == Cardinality({i \in 1..Len(s) : s[i] = x})

\* C9, amended: Build sorts the caller's list in place; after the call it
\* holds the same strings, each as often as before, in ascending byte order
C9_KeyListSorted ==
  JustBuilt =>
     /\ Len(keyList) = Len(handles[Last].keys)
     /\ \A x \in Elems(keyList) \cup KeySet(Last) :
          Occurrences(keyList, x) = Occurrences(handles[Last].keys, x)
     /\ \A i \in 1..(Len(keyList) - 1) : ~StrLess(keyList[i + 1], keyList[i])

\* a Build has reordered the list it was given
C9_Witness ==
  /\ JustBuilt
  /\ keyList # handles[Last].keys
  /\ Len(keyList) = MaxKeys

decodedPrefixes(trie, r) ==
  IF r.st # "ok" THEN r
  ELSE {[key |-> DecodeKey(trie, r.res[i].ID), len |-> r.res[i].Length]
          : i \in 1..Len(r.res)}

decodedIds(trie, r) ==
  IF r.st # "ok" THEN r ELSE {DecodeKey(trie, id) : id \in Elems(r.res)}

\* the answers that must not depend on the tail mode: found or not, and
\* the decoded keys and lengths of the two searches
ModeFree(trie, q) ==
  [found |-> Found(trie, q),
   prefix |-> decodedPrefixes(trie, CommonPrefixSearch(trie, q, 0)),
   predict |-> decodedIds(trie, PredictiveSearch(trie, q, 0))]

\* C10: the trie built with compressTails = true and the trie built from
\* the same list with compressTails = false agree on found/not-found and
\* on the decoded results of both searches for every query, and both
\* round-trip every key
C10_ModeEquivalence ==
  (JustBuilt /\ handles[Last].flag) =>
     /\ \A q \in Queries :
          ModeFree(Obj(Last), q) =
            ModeFree(Build(ZeroTrie, handles[Last].keys, FALSE), q)
     /\ \A k \in KeySet(Last) :
          /\ RoundTrips(Obj(Last), k)
          /\ RoundTrips(Build(ZeroTrie, handles[Last].keys, FALSE), k)

\* the answers of a TrieData to every query
AllAnswers(trie) ==
  [exact |-> [q \in Queries |-> ExactMatchSearch(trie, q)],
   prefix |-> [x \in Queries \X Limits |-> CommonPrefixSearch(trie, x[1], x[2])],
   predict |-> [x \in Queries \X Limits |-> PredictiveSearch(trie, x[1], x[2])],
   decode |-> [id \in Ids |-> DecodeKey(trie, id)],
   num |-> GetNumOfKeys(trie)]

\* NewTrieFromBinary has been given the whole serialized form of a trie
ParsedWhole == out.op = "NewTrieFromBinary" /\ out.data.len = out.full

\* C11: NewTrieFromBinary of the whole MarshalBinary output of a built trie
\* succeeds, and the parsed trie answers every ExactMatchSearch,
\* CommonPrefixSearch, PredictiveSearch, DecodeKey and GetNumOfKeys call as
\* the built trie does
C11_SerializationRoundTrip ==
  ParsedWhole =>
     /\ out.r.st = "ok" /\ ~out.r.err
     /\ AllAnswers(out.r.trie) = AllAnswers(Obj(out.h))

\* a trie of MaxKeys keys whose tails are in a tail trie has been
\* serialized and parsed
C11_Witness ==
  /\ ParsedWhole
  /\ out.r.st = "ok" /\ ~out.r.err
  /\ Stored(out.h) = MaxKeys
  /\ out.r.trie.hasTailTrie
  /\ out.r.trie.tailIDSize > 0

\* the ids ExactMatchSearch gives the keys of Build call h
KeyIds(trie, h) == {ExactMatchSearch(trie, k).id : k \in KeySet(h)}

\* C12: after Build, every distinct input key is found, the ids of the
\* distinct keys are pairwise different, and together they are exactly
\* 0 .. numOfKeys-1
C12_DenseIds ==
  JustBuilt =>
     /\ \A k \in KeySet(Last) : Found(Obj(Last), k)
     /\ \A k, l \in KeySet(Last) :
          k # l => ExactMatchSearch(Obj(Last), k).id # ExactMatchSearch(Obj(Last), l).id
     /\ KeyIds(Obj(Last), Last) = 0..(GetNumOfKeys(Obj(Last)) - 1)

\* the lists that hold each key of Build call h once, in any order
Distincts(h) == {d \in [1..Stored(h) -> KeySet(h)] : Elems(d) = KeySet(h)}

\* C13: GetNumOfKeys of a built trie is the number of distinct strings of
\* the input, and every key has the id it has in a trie built, with the
\* same flag, from the distinct strings alone
C13_Duplicates ==
  JustBuilt =>
     /\ GetNumOfKeys(Obj(Last)) = Stored(Last)
     /\ \A d \in Distincts(Last) : \A k \in KeySet(Last) :
          ExactMatchSearch(Obj(Last), k) =
            ExactMatchSearch(Build(ZeroTrie, d, handles[Last].flag), k)

\* a Build has been given a list that holds a key twice
C13_Witness ==
  /\ JustBuilt
  /\ Len(handles[Last].keys) > Stored(Last)
  /\ Found(Obj(Last), handles[Last].keys[1])

\* the entry CommonPrefixSearch owes the stored key k
EntryOf(trie, k) == [ID |-> ExactMatchSearch(trie, k).id, Length |-> Len(k)]

\* C14: CommonPrefixSearch(q, 0) holds the entry (ExactMatchSearch(k).id,
\* |k|) of every stored key k that is a byte-prefix of q
C14_PrefixComplete ==
  (out.op = "CommonPrefixSearch" /\ out.limit = 0) =>
     \A k \in KeySet(out.h) :
        IsPrefix(k, out.key) =>
          /\ out.r.st = "ok"
          /\ Found(Obj(out.h), k)
          /\ EntryOf(Obj(out.h), k) \in Elems(out.r.res)

\* the first n bytes of q
Prefix(q, n) == SubSeq(q, 1, n)

\* C15: for every entry (ID, Length) of a CommonPrefixSearch(q, limit)
\* result, DecodeKey(ID) is found and is q[:Length]
C15_PrefixSound ==
  (out.op = "CommonPrefixSearch" /\ out.r.st = "ok") =>
     \A e \in Elems(out.r.res) :
        /\ e.Length >= 0 /\ e.Length <= Len(out.key)
        /\ DecodeKey(Obj(out.h), e.ID) =
             [st |-> "ok", key |-> Prefix(out.key, e.Length), found |-> TRUE]

\* a CommonPrefixSearch on a trie with a tail trie has returned two
\* entries, the longer one of a key that ends in a tail
C15_Witness ==
  /\ out.op = "CommonPrefixSearch"
  /\ out.r.st = "ok"
  /\ Len(out.r.res) = 2
  /\ handles[out.h].flag
  /\ Obj(out.h).tail # <<>>
  /\ NumOfBits(Obj(out.h).tail) > 0

\* the lists that hold the strings of Build call h, each as often, in any
\* order
Reorderings(h) ==
  {p \in [1..Len(handles[h].keys) -> KeySet(h)] :
     \A x \in KeySet(h) : Occurrences(p, x) = Occurrences(handles[h].keys, x)}

\* C16: a trie built from a permutation of the key list, with the same
\* flag, gives every key the same id and is the same TrieData, field by
\* field, so that it answers every query identically
C16_OrderIndependent ==
  JustBuilt =>
     \A p \in Reorderings(Last) :
        /\ Build(ZeroTrie, p, handles[Last].flag) = Obj(Last)
        /\ \A k \in KeySet(Last) :
             ExactMatchSearch(Build(ZeroTrie, p, handles[Last].flag), k) =
               ExactMatchSearch(Obj(Last), k)

\* a Build has been given MaxKeys different keys in descending order
C16_Witness ==
  /\ JustBuilt
  /\ Stored(Last) = MaxKeys
  /\ StrLess(handles[Last].keys[MaxKeys], handles[Last].keys[1])
  /\ Cardinality(Reorderings(Last)) > 1

\* the smaller of two natural numbers
Least(a, b) == IF a < b THEN a ELSE b

\* r is the result that holds the first limit entries of the result full
FirstOf(r, full, limit) ==
  r = [st |-> "ok", res |-> SubSeq(full.res, 1, Least(limit, Len(full.res)))]

limitedAs(r, full, limit) == full.st = "ok" => FirstOf(r, full, limit)

\* C17: for limit > 0, CommonPrefixSearch(q, limit) is the first
\* min(limit, n) entries of the n entries of CommonPrefixSearch(q, 0)
C17_PrefixLimit ==
  (out.op = "CommonPrefixSearch" /\ out.limit > 0) =>
     limitedAs(out.r, CommonPrefixSearch(Obj(out.h), out.key, 0), out.limit)

\* a CommonPrefixSearch with limit 1 has returned one entry where the
\* unlimited search returns two
C17_Witness ==
  /\ out.op = "CommonPrefixSearch"
  /\ out.limit = 1
  /\ out.r.st = "ok"
  /\ Len(out.r.res) = 1
  /\ CommonPrefixSearch(Obj(out.h), out.key, 0).st = "ok"
  /\ Len(CommonPrefixSearch(Obj(out.h), out.key, 0).res) = 2

\* the number of bytes of the key DecodeKey gives for id, tail included
DecodedLen(trie, id) == Len(DecodeKey(trie, id).key)

\* C18: the entries of a CommonPrefixSearch result are in strictly
\* increasing order of Length, no id is repeated, and each Length is the
\* whole length of the entry's key, the bytes of its tail included
C18_PrefixOrder ==
  (out.op = "CommonPrefixSearch" /\ out.r.st = "ok") =>
     /\ \A i, j \in 1..Len(out.r.res) :
          i < j => /\ out.r.res[i].Length < out.r.res[j].Length
                   /\ out.r.res[i].ID # out.r.res[j].ID
     /\ \A e \in Elems(out.r.res) :
          /\ DecodeKey(Obj(out.h), e.ID).st = "ok"
          /\ e.Length = DecodedLen(Obj(out.h), e.ID)

\* a CommonPrefixSearch has returned two entries, the second for a key
\* with a tail of two bytes or more
C18_Witness ==
  /\ out.op = "CommonPrefixSearch"
  /\ out.r.st = "ok"
  /\ Len(out.r.res) = 2
  /\ out.r.res[2].Length > out.r.res[1].Length + 1
  /\ Obj(out.h).vtails # <<>>

\* C19: for limit > 0, PredictiveSearch(p, limit) is the first
\* min(limit, n) ids, in order, of the n ids of PredictiveSearch(p, 0); a
\* result holds no more than limit ids and no id twice
C19_PredictiveLimit ==
  out.op = "PredictiveSearch" =>
     /\ out.limit > 0 =>
          limitedAs(out.r, PredictiveSearch(Obj(out.h), out.key, 0), out.limit)
     /\ out.r.st = "ok" =>
          /\ out.limit > 0 => Len(out.r.res) <= out.limit
          /\ \A i, j \in 1..Len(out.r.res) : i < j => out.r.res[i] # out.r.res[j]

\* a PredictiveSearch with limit 1 has returned one id where the unlimited
\* search returns two
C19_Witness ==
  /\ out.op = "PredictiveSearch"
  /\ out.limit = 1
  /\ out.r.st = "ok"
  /\ Len(out.r.res) = 1
  /\ PredictiveSearch(Obj(out.h), out.key, 0).st = "ok"
  /\ Len(PredictiveSearch(Obj(out.h), out.key, 0).res) = 2

\* C20: parsing a buffer whose hasTailTrie field holds a value other than
\* 0 and 1 returns ErrorInvalidFormat
C20_FlagRange ==
  out.op = "NewTrieFromBinaryFlag" => out.r.st = "ok" /\ out.r.err

\* C21: when UnmarshalBinary on an existing trie returns an error, every
\* field of the trie is as it was before the call, and so is what it
\* answers for its keys
C21_FailedParse ==
  (out.op = "UnmarshalBinary" /\ out.r.st = "ok" /\ out.r.err) =>
     /\ Obj(out.h) = out.before
     /\ \A k \in KeySet(out.h) :
          ExactMatchSearch(Obj(out.h), k) = ExactMatchSearch(out.before, k)

\* UnmarshalBinary has failed on a trie with keys, on the damaged form of
\* another trie: the damage lies behind a vector that was parsed
C21_Witness ==
  /\ out.op = "UnmarshalBinary"
  /\ out.r.st = "ok" /\ out.r.err
  /\ Obj(out.h).numOfKeys > 0
  /\ handles[out.g].ret # out.before
  /\ NewTrieFromBinary([arr |-> out.bin, len |-> Len(out.bin)]).err
  /\ SubSeq(out.bin, 1, sizeOfInt64 + 2 * sizeOfInt32) =
       SubSeq(MarshalBinary(handles[out.g].ret), 1, sizeOfInt64 + 2 * sizeOfInt32)

\* what Traverse gives when it cannot proceed and touches nothing
Stuck(nodePos, zeros, keyPos) ==
  [st |-> "ok", id |-> NotFound, can |-> FALSE,
   nodePos |-> nodePos, zeros |-> zeros, keyPos |-> keyPos]

\* C22: Traverse called with nodePos = NotFound returns (NotFound, false)
\* and leaves the three cursors as they were; a call that returns
\* canTraverse = false leaves nodePos = NotFound; and the call that follows
\* a call that returned false returns (NotFound, false) as well
C22_Absorbing ==
  out.op = "Traverse" =>
     /\ out.nodePos = NotFound => out.r = Stuck(out.nodePos, out.zeros, out.keyPos)
     /\ (out.r.st = "ok" /\ ~out.r.can) => out.r.nodePos = NotFound
     /\ out.stopped => (out.r.st = "ok" /\ out.r.id = NotFound /\ ~out.r.can)

\* a walk from the root went on for two calls, was then told that it
\* cannot proceed, and called once more
C22_Witness ==
  /\ out.op = "Traverse"
  /\ out.n >= 4
  /\ out.stopped
  /\ out.r = Stuck(NotFound, out.zeros, out.keyPos)
  /\ out.zeros > defaultPos

\* what a call returns when it runs with no other call beside it
Alone(trie, call) ==
  IF call.kind = "ExactMatchSearch" THEN ExactMatchSearch(trie, call.key)
  ELSE readerTurn(trie, call)

\* C23: while readers query one built trie side by side, no field of the
\* trie is written, and every call that has returned has the result it has
\* when it runs alone on the trie as Build returned it
C23_ReadOnly ==
  out.op = "Readers" =>
     /\ Obj(out.h) = handles[out.h].ret
     /\ \A i \in 1..NumReaders :
          out.calls[i].r.st # "run" =>
            out.calls[i].r = Alone(handles[out.h].ret, out.calls[i])

\* two readers have searched for two different keys of a trie with a tail
\* trie, and both calls have returned, the second after the first
C23_Witness ==
  /\ out.op = "Readers"
  /\ Obj(out.h).hasTailTrie
  /\ Stored(out.h) = MaxKeys
  /\ out.calls[1].kind = "ExactMatchSearch"
  /\ out.calls[2].kind = "ExactMatchSearch"
  /\ out.calls[1].key # out.calls[2].key
  /\ \A i \in 1..2 : out.calls[i].r.st = "ok" /\ out.calls[i].r.found

\* an empty input leaves nothing but the two seed bits
OnlySeed(trie) ==
  /\ Len(trie.louds) = 2
  /\ trie.terminal = <<>>
  /\ trie.tail = <<>>
  /\ trie.edges = <<>>

\* C24 as written: in every built trie bit 0 of the tree vector is 1 and
\* bit 1 is 0, and an empty input yields these two bits only
C24_SeedOneZero ==
  JustBuilt =>
     /\ Len(Obj(Last).louds) >= 2
     /\ Get(Obj(Last).louds, 0) /\ ~Get(Obj(Last).louds, 1)
     /\ handles[Last].keys = <<>> => OnlySeed(Obj(Last))

\* C24, amended: in every built trie bit 0 of the tree vector is 0 and bit
\* 1 is 1, and an empty input yields a tree vector of these two bits only,
\* with empty terminal vector, tail vector and label array
C24_SeedZeroOne ==
  JustBuilt =>
     /\ Len(Obj(Last).louds) >= 2
     /\ ~Get(Obj(Last).louds, 0) /\ Get(Obj(Last).louds, 1)
     /\ handles[Last].keys = <<>> => OnlySeed(Obj(Last))

\* a Build of MaxKeys keys has returned a tree vector that goes on after
\* its first two bits
C24_Witness ==
  /\ JustBuilt
  /\ Stored(Last) = MaxKeys
  /\ Len(Obj(Last).louds) > 2
  /\ NumOfBits(Obj(Last).tail) > 0

\* the trie of the set of keys K, as a set of byte strings: every prefix of
\* a key is a node, but a node under which a single key continues for two
\* bytes or more is a tail node and has nothing below it
Prefixes(K) == UNION {{SubSeq(k, 1, n) : n \in 0..Len(k)} : k \in K}
Under(K, p) == {k \in K : IsPrefix(p, k)}
IsTailNode(K, p) ==
  /\ Cardinality(Under(K, p)) = 1
  /\ \A k \in Under(K, p) : Len(k) >= Len(p) + 2
TrieNodes(K) ==
  {p \in Prefixes(K) :
     \A n \in 0..(Len(p) - 1) : ~IsTailNode(K, SubSeq(p, 1, n))}
ChildrenOf(K, p) ==
  {q \in TrieNodes(K) : Len(q) = Len(p) + 1 /\ IsPrefix(p, q)}

\* level order: the shorter string first, strings of one length in byte
\* order
LevelLess(a, b) == Len(a) < Len(b) \/ (Len(a) = Len(b) /\ StrLess(a, b))
FirstNode(S) == CHOOSE x \in S : \A y \in S \ {x} : LevelLess(x, y)

RECURSIVE LevelOrder(_)
LevelOrder(S) ==
  IF S = {} THEN <<>> ELSE <<FirstNode(S)>> \o LevelOrder(S \ {FirstNode(S)})

\* one 0-bit per child, then one 1-bit, for every node of the sequence
RECURSIVE Degrees(_, _)
Degrees(K, nodes) ==
  IF nodes = <<>> THEN <<>>
  ELSE [i \in 1..Cardinality(ChildrenOf(K, Head(nodes))) |-> 0] \o <<1>>
         \o Degrees(K, Tail(nodes))

\* the last byte of every node of the sequence but the root
RECURSIVE LabelsOf(_)
LabelsOf(nodes) ==
  IF nodes = <<>> THEN <<>>
  ELSE (IF Head(nodes) = <<>> THEN <<>> ELSE <<Head(nodes)[Len(Head(nodes))]>>)
         \o LabelsOf(Tail(nodes))

IsLouds(trie, K, nodes) ==
  /\ trie.louds = <<0, 1>> \o Degrees(K, nodes)
  /\ trie.edges = LabelsOf(nodes)
  /\ NumOfBits(trie.louds) = Len(nodes) + 1
  /\ Len(trie.edges) = Count(trie.louds, 0, Len(trie.louds)) - 1

\* C25: after Build the tree vector is its two seed bits and then, for the
\* nodes of the trie of the distinct keys in level order, one 0-bit per
\* child and one 1-bit; its 1-bits are as many as the nodes and the
\* super-root; the label array holds the labels of the nodes in the same
\* order and is one shorter than the number of 0-bits
C25_LoudsEncoding ==
  JustBuilt => IsLouds(Obj(Last), KeySet(Last), LevelOrder(TrieNodes(KeySet(Last))))

\* a Build of keys that part at a node with two children, one of them
\* going on for a tail, has returned
C25_Witness ==
  /\ JustBuilt
  /\ Stored(Last) = MaxKeys
  /\ Len(Obj(Last).edges) >= 2
  /\ NumOfBits(Obj(Last).tail) > 0
  /\ \E p \in TrieNodes(KeySet(Last)) :
        Cardinality(ChildrenOf(KeySet(Last), p)) = 2

\* the tail string of the node with one-index ones, in unshared mode, makes
\* a key of the node and is two bytes or more
TailOfNode(trie, K, p, ones) ==
  /\ InRange(trie.vtails, Rank1(trie.tail, ones))
  /\ Len(trie.vtails[Rank1(trie.tail, ones) + 1]) >= 2
  /\ p \o trie.vtails[Rank1(trie.tail, ones) + 1] \in K

\* the node with one-index ones, p, carries a tail
CarriesTail(trie, K, p, ones) ==
  /\ Get(trie.terminal, ones)
  /\ isLeaf(trie, Select1(trie.louds, ones) + 1)
  /\ \A k \in Under(K, p) : Len(k) >= Len(p) + 2
  /\ ~trie.hasTailTrie => TailOfNode(trie, K, p, ones)

OneBitPerNode(trie, K, nodes) ==
  /\ Len(trie.terminal) = Len(nodes)
  /\ Len(trie.tail) = Len(nodes)
  /\ Len(nodes) = NumOfBits(trie.louds) - 1
  /\ \A i \in 1..Len(nodes) :
        /\ Get(trie.tail, i - 1) <=> IsTailNode(K, nodes[i])
        /\ Get(trie.tail, i - 1) => CarriesTail(trie, K, nodes[i], i - 1)

\* C26: after Build the terminal vector and the tail vector hold one bit
\* per node of the trie, as many as the tree vector has 1-bits less one;
\* the tail bit of a node is set exactly when a single key goes on from the
\* node for two bytes or more, and such a node has its terminal bit set,
\* has no children in the tree vector, and (in unshared mode) its entry of
\* the tail table is that rest of the key
C26_OneBitPerNode ==
  JustBuilt =>
     OneBitPerNode(Obj(Last), KeySet(Last), LevelOrder(TrieNodes(KeySet(Last))))

\* a Build has returned a trie in which a node with a tail follows nodes
\* without one
C26_Witness ==
  /\ JustBuilt
  /\ Len(Obj(Last).tail) >= 3
  /\ NumOfBits(Obj(Last).tail) > 0
  /\ ~Get(Obj(Last).tail, 0)
  /\ Obj(Last).vtails # <<>>

\* the hasTailTrie field of the serialized form of trie
FlagField(trie) ==
  Uint(SubSeq(MarshalBinary(trie), flagOffset(trie) + 1, flagOffset(trie) + sizeOfInt32))

\* C27: a Build with compressTails = true on a key list that produces no
\* tail returns a trie in unshared mode, and the hasTailTrie field of its
\* serialized form is 0
C27_NoTailUnshared ==
  (JustBuilt /\ handles[Last].flag /\ NumOfBits(Obj(Last).tail) = 0) =>
     /\ ~Obj(Last).hasTailTrie
     /\ FlagField(Obj(Last)) = 0

\* the least s with 2^s >= x, for x >= 1
CeilLog2(x) == CHOOSE s \in 0..x : 2 ^ s >= x /\ \A t \in 0..(s - 1) : 2 ^ t < x

\* the rests of the keys at the tail nodes of the sequence, in its order
RECURSIVE TailsAt(_, _)
TailsAt(K, nodes) ==
  IF nodes = <<>> THEN <<>>
  ELSE (IF IsTailNode(K, Head(nodes))
          THEN <<SubSeq(CHOOSE k \in Under(K, Head(nodes)) : TRUE,
                        Len(Head(nodes)) + 1,
                        Len(CHOOSE k \in Under(K, Head(nodes)) : TRUE))>>
          ELSE <<>>)
         \o TailsAt(K, Tail(nodes))

\* the id written for a tail is the id its reversed form has in the
\* secondary trie, and fits the width
WrittenId(sec, size, id, r) ==
  /\ isFound(r)
  /\ r.id = id
  /\ id >= 0 /\ id < 2 ^ size
  /\ id < GetNumOfKeys(sec)

TailIds(trie, tails) ==
  /\ trie.tailTrie # NoTrie
  /\ trie.tailIDSize = CeilLog2(GetNumOfKeys(trie.tailTrie) + 1)
  /\ Len(tails) = NumOfBits(trie.tail)
  /\ Len(trie.tailIDs) = trie.tailIDSize * Len(tails)
  /\ \A i \in 1..Len(tails) :
        WrittenId(trie.tailTrie, trie.tailIDSize,
                  GetBits(trie.tailIDs, trie.tailIDSize * (i - 1), trie.tailIDSize),
                  ExactMatchSearch(trie.tailTrie, reverseString(tails[i])))

\* C28: in shared mode tailIDSize is ceil(log2(n + 1)) for the n keys of
\* the secondary trie; the tail-id vector holds tailIDSize bits per tail;
\* and the number read at bit offset tailIDSize * i is the id under which
\* the reversed tail number i is found in the secondary trie, smaller than
\* 2^tailIDSize
C28_TailIdWidth ==
  (JustBuilt /\ Obj(Last).hasTailTrie) =>
     TailIds(Obj(Last), TailsAt(KeySet(Last), LevelOrder(TrieNodes(KeySet(Last)))))

\* a Build has returned a shared-mode trie with two different tails, so
\* that an id takes two bits
C28_Witness ==
  /\ JustBuilt
  /\ Obj(Last).hasTailTrie
  /\ Obj(Last).tailIDSize = 2
  /\ Len(Obj(Last).tailIDs) = 4
  /\ GetBits(Obj(Last).tailIDs, 0, 2) # GetBits(Obj(Last).tailIDs, 2, 2)

\* getTail gives every tail of the sequence back, byte for byte
TailsRecovered(trie, tails) ==
  \A i \in 1..Len(tails) : getTail(trie, i - 1) = [st |-> "ok", s |-> tails[i]]

\* C29: in shared mode the string getTail recovers for every tail id (the
\* secondary trie's key for the id that was written, reversed back) is the
\* original tail byte for byte, whatever bytes the tail is made of
C29_TailByteExact ==
  (JustBuilt /\ Obj(Last).hasTailTrie) =>
     TailsRecovered(Obj(Last), TailsAt(KeySet(Last), LevelOrder(TrieNodes(KeySet(Last)))))

====
